---- MODULE Spec2Model ----
(***************************************************************************)
(* pypipeline: linear pipelines of callables built with .then / >> and run *)
(* with .call / |.  Stages are frozen dataclass objects on a heap; a       *)
(* composed callable is the closure `inner` with its captured f and g.    *)
(***************************************************************************)
EXTENDS Integers, Sequences, FiniteSets, TLC

\* ------------------------------------------------------------------ bounds
\* objects on the heap when prefixes are shared (Spec), the initial
\* Pipeline() included
MaxStages == 3
\* user callables in one linear chain (SpecRun)
MaxDepth == 3
\* call arguments are integers 0..MaxArg
MaxArg == 1

\* ------------------------------------------------------- python values
IntV(n) == [t |-> "int", v |-> n]
TupleV(s) == [t |-> "tuple", v |-> s]
IsInt(x) == x.t = "int"
IsTuple(x) == x.t = "tuple"

\* the outcome of a python call: a returned value or a raised exception
Return(x) == [kind |-> "return", val |-> x, type |-> "", msg |-> <<>>]
Raise(ty, m) == [kind |-> "raise", val |-> IntV(0), type |-> ty, msg |-> m]
Raised(o) == o.kind = "raise"

\* keyword arguments: an ordered list of (name, value)
NoKwargs == <<>>
Kw(n, x) == <<[name |-> n, val |-> x]>>

\* ------------------------------------------------------ user callables
\* the callables handed to the pipeline; they are opaque to the library
UserFns == {"pipe_f1", "divmod", "double", "raise_custom"}

\* def pipe_f1(a, *, b): return a, b
pipe_f1(args, kwargs) ==
    IF Len(args) # 1 THEN Raise("TypeError", <<"positional arguments">>)
    ELSE IF Len(kwargs) # 1 THEN Raise("TypeError", <<"keyword-only argument">>)
    ELSE Return(TupleV(<<args[1], kwargs[1].val>>))

\* lambda n, d: (n // d, n % d)
divmod(args, kwargs) ==
    IF Len(kwargs) # 0 THEN Raise("TypeError", <<"unexpected keyword argument">>)
    ELSE IF Len(args) # 2 THEN Raise("TypeError", <<"positional arguments">>)
    ELSE IF ~(IsInt(args[1]) /\ IsInt(args[2]))
         THEN Raise("TypeError", <<"unsupported operand">>)
    ELSE IF args[2].v = 0
         THEN Raise("ZeroDivisionError", <<"integer division or modulo by zero">>)
    ELSE Return(TupleV(<<IntV(args[1].v \div args[2].v), IntV(args[1].v % args[2].v)>>))

\* lambda c: c * 2   (a tuple times 2 is the tuple repeated)
double(args, kwargs) ==
    IF Len(kwargs) # 0 THEN Raise("TypeError", <<"unexpected keyword argument">>)
    ELSE IF Len(args) # 1 THEN Raise("TypeError", <<"positional arguments">>)
    ELSE IF IsInt(args[1]) THEN Return(IntV(args[1].v * 2))
    ELSE Return(TupleV(args[1].v \o args[1].v))

\* def raise_custom(*args, **kwargs): raise CustomError("oops")
raise_custom(args, kwargs) == Raise("CustomError", <<"oops">>)

\* calling the user callable `name` with positional and keyword arguments
ApplyUser(name, args, kwargs) ==
    CASE name = "pipe_f1" -> pipe_f1(args, kwargs)
      [] name = "divmod" -> divmod(args, kwargs)
      [] name = "double" -> double(args, kwargs)
      [] name = "raise_custom" -> raise_custom(args, kwargs)

\* --------------------------------------------------------- callables
\* a callable object: a user function, or a closure `inner` over (f, g)
UserFn(name) == [kind |-> "user", name |-> name]
\* the class attribute f = None of _PipeThenMixin
NoneF == [kind |-> "None"]

\* faulty variant: the two callables composed in the wrong order
compose_no_ret_unpack_swapped(f, g) == [kind |-> "no_ret_unpack", f |-> g, g |-> f]

\* compose.py: the closure returned; its body is inner_no_ret_unpack below
_compose_no_ret_unpack(f, g) == [kind |-> "no_ret_unpack", f |-> f, g |-> g]

\* faulty variant: the tuple handed over as one argument
compose_ret_tuple_unpack_unspread(f, g) == [kind |-> "no_ret_unpack", f |-> f, g |-> g]

\* compose.py: the closure returned; its body is inner_ret_tuple_unpack below
_compose_ret_tuple_unpack(f, g) == [kind |-> "ret_tuple_unpack", f |-> f, g |-> g]

\* A call yields its outcome, the user callables entered, in order, and
\* the warnings issued.
Ran(o, cs) == [out |-> o, calls |-> cs, warnings |-> <<>>]

RECURSIVE Invoke(_, _, _)

\* faulty variant: an exception of g is caught and re-raised as another one
inner_no_ret_unpack_wrapping(c, args, kwargs) ==
    LET r1 == Invoke(c.f, args, kwargs)
    IN  IF Raised(r1.out) THEN r1
        ELSE LET r2 == Invoke(c.g, <<r1.out.val>>, NoKwargs)
             IN  Ran(IF Raised(r2.out) THEN Raise("RuntimeError", <<"stage failed">>)
                     ELSE r2.out,
                     r1.calls \o r2.calls)

\* inner of _compose_no_ret_unpack: return g(f(*args, **kwargs))
inner_no_ret_unpack(c, args, kwargs) ==
    LET r1 == Invoke(c.f, args, kwargs)
    IN  IF Raised(r1.out) THEN r1
        ELSE LET r2 == Invoke(c.g, <<r1.out.val>>, NoKwargs)
             IN  Ran(r2.out, r1.calls \o r2.calls)

\* faulty variant: g runs although f raised
inner_ret_tuple_unpack_eager(c, args, kwargs) ==
    LET r1 == Invoke(c.f, args, kwargs)
        r2 == Invoke(c.g, IF ~Raised(r1.out) /\ IsTuple(r1.out.val)
                          THEN r1.out.val.v ELSE <<>>, NoKwargs)
    IN  IF Raised(r1.out) THEN Ran(r1.out, r1.calls \o r2.calls)
        ELSE IF ~IsTuple(r1.out.val)
             THEN Ran(Raise("TypeError", <<"argument after * must be an iterable">>), r1.calls)
        ELSE Ran(r2.out, r1.calls \o r2.calls)

\* inner of _compose_ret_tuple_unpack: return g(*f(*args, **kwargs))
inner_ret_tuple_unpack(c, args, kwargs) ==
    LET r1 == Invoke(c.f, args, kwargs)
    IN  IF Raised(r1.out) THEN r1
        ELSE IF ~IsTuple(r1.out.val)
             THEN Ran(Raise("TypeError", <<"argument after * must be an iterable">>), r1.calls)
        ELSE LET r2 == Invoke(c.g, r1.out.val.v, NoKwargs)
             IN  Ran(r2.out, r1.calls \o r2.calls)

\* calling a callable object
Invoke(c, args, kwargs) ==
    CASE c.kind = "user" -> Ran(ApplyUser(c.name, args, kwargs), <<c.name>>)
      [] c.kind = "no_ret_unpack" -> inner_no_ret_unpack(c, args, kwargs)
      [] c.kind = "ret_tuple_unpack" -> inner_ret_tuple_unpack(c, args, kwargs)
      [] OTHER -> Ran(Raise("TypeError", <<"object is not callable">>), <<>>)

\* ------------------------------------------------------------- stages
\* stage objects: the class and the field f (Pipeline has no field; its f
\* is the mixin's class attribute None)
MkPipeline == [cls |-> "Pipeline", f |-> NoneF]
_PipeStd(f) == [cls |-> "_PipeStd", f |-> f]
\* faulty variant: the tuple-unpack stage is built without its callable
PipeTUn_without_f(f) == [cls |-> "_PipeTUn", f |-> NoneF]

_PipeTUn(f) == [cls |-> "_PipeTUn", f |-> f]

\* the class attribute _compose_type
_compose_type(self) ==
    CASE self.cls = "Pipeline" -> "no_compose"
      [] self.cls = "_PipeStd" -> "regular"
      [] self.cls = "_PipeTUn" -> "tuple_unpack"

\* values given as result_unpack; "None" is the no-unpack default
UnpackValues == {"None", "tuple", "dict", "bogus"}

\* f"Unsupported unpack result: {result_unpack}", as its literal part and
\* the interpolated value
UnsupportedUnpackMsg(result_unpack) == <<"Unsupported unpack result: ", result_unpack>>

\* faulty variant: an unknown result_unpack is ignored
then_impl_ignoring_unknown(f, result_unpack) ==
    IF result_unpack = "tuple" THEN Return(_PipeTUn(f)) ELSE Return(_PipeStd(f))

_then_impl(f, result_unpack) ==
    IF result_unpack = "None" THEN Return(_PipeStd(f))
    ELSE IF result_unpack = "tuple" THEN Return(_PipeTUn(f))
    ELSE Raise("ValueError", UnsupportedUnpackMsg(result_unpack))

\* faulty variant: the join follows the wrong branch
compose_self_with_swapped(self, f) ==
    IF _compose_type(self) = "no_compose" THEN Return(f)
    ELSE IF _compose_type(self) = "regular"
         THEN Return(_compose_ret_tuple_unpack(self.f, f))
    ELSE Return(_compose_no_ret_unpack(self.f, f))

_compose_self_with(self, f) ==
    IF _compose_type(self) = "no_compose" THEN Return(f)
    ELSE IF self.f = NoneF
         THEN Raise("ValueError", <<"Wrong compose type ", _compose_type(self), " for ", self.cls>>)
    ELSE IF _compose_type(self) = "regular"
         THEN Return(_compose_no_ret_unpack(self.f, f))
    ELSE IF _compose_type(self) = "tuple_unpack"
         THEN Return(_compose_ret_tuple_unpack(self.f, f))
    ELSE Raise("ValueError", <<"Unsupported compose type: ", _compose_type(self)>>)

_then(self, f, result_unpack) ==
    LET func == _compose_self_with(self, f)
    IN  IF Raised(func) THEN func ELSE _then_impl(func.val, result_unpack)

\* faulty variant: a tuple-flagged stage spreads its own result into a 1-tuple pick
call_self_unpacking(self, args, kwargs) ==
    LET r == Invoke(self.f, args, kwargs)
    IN  IF self.cls = "_PipeTUn" /\ ~Raised(r.out) /\ IsTuple(r.out.val)
             /\ Len(r.out.val.v) > 0
        THEN [r EXCEPT !.out = Return(r.out.val.v[1])]
        ELSE r

\* _PipeBase.call: return self.f(*args, **kwargs)
call(self, args, kwargs) == Invoke(self.f, args, kwargs)

\* warning_unstable_feature_or_operator(): warn(..., UnstableFeatureWarning)
UnstableFeatureWarning ==
    [category |-> "UnstableFeatureWarning",
     message |-> "Operator | is experimental/unstable. Prefer call method instead."]

\* faulty variant: the warning is not issued
or_without_warning(self, x) == call(self, <<x>>, NoKwargs)

\* self | x : warning_unstable_feature_or_operator(); return self.call(x)
__or__(self, x) ==
    LET r == call(self, <<x>>, NoKwargs)
    IN  [out |-> r.out, calls |-> r.calls,
         warnings |-> <<UnstableFeatureWarning>> \o r.warnings]

\* -------------------------------------------------------------- state
VARIABLES
    heap,      \* the stage objects created so far, in creation order
    built,     \* history: for each object, the (callable, unpack) appended to reach it
    op,        \* the last operation: "init", "then", "rshift", "call", "or"
    recv,      \* the heap index of its receiver
    given,     \* the callable and result_unpack given to the last then / >>
    args,      \* the positional arguments of the last call / |
    kwargs,    \* the keyword arguments of the last call
    result,    \* what the last operation returned or raised
    calls,     \* the user callables entered during the last operation, in order
    warnings   \* the warnings issued during the last operation

vars == <<heap, built, op, recv, given, args, kwargs, result, calls, warnings>>

NoGiven == [g |-> "", unpack |-> "None"]

ArgValues == {IntV(n) : n \in 0..MaxArg}
KwargsValues == {NoKwargs, Kw("b", IntV(2))}
\* the (*args, **kwargs) a call is made with: one argument with or without
\* the keyword b, or two arguments
CallInputs ==
    {[args |-> <<x>>, kwargs |-> kw] : x \in ArgValues, kw \in KwargsValues}
    \cup {[args |-> <<x, y>>, kwargs |-> NoKwargs] : x \in ArgValues, y \in ArgValues}

Init ==
    /\ heap = <<MkPipeline>>
    /\ built = << <<>> >>
    /\ op = "init"
    /\ recv = 0
    /\ given = NoGiven
    /\ args = <<>>
    /\ kwargs = NoKwargs
    /\ result = Return(IntV(0))
    /\ calls = <<>>
    /\ warnings = <<>>

\* faulty variant: the receiver is updated in place and returned
HeapAfterThenInPlace(h, self, out) ==
    IF Raised(out) THEN h ELSE Append([h EXCEPT ![self] = out.val], out.val)

\* the heap after a then: a returned stage is a new object; the receiver
\* and every other object stay as they are (frozen dataclasses)
HeapAfterThen(h, self, out) ==
    IF Raised(out) THEN h ELSE Append(h, out.val)

\* self.then(g, result_unpack=u) on the object at heap[self]; at most cap
\* objects are created
ThenStep(name, self, g, u, cap) ==
    LET out == _then(heap[self], UserFn(g), u)
    IN  /\ Raised(out) \/ Len(heap) < cap
        /\ heap' = HeapAfterThen(heap, self, out)
        /\ built' = IF Raised(out) THEN built
                    ELSE Append(built, Append(built[self], [g |-> g, unpack |-> u]))
        /\ op' = name
        /\ recv' = self
        /\ given' = [g |-> g, unpack |-> u]
        /\ args' = <<>>
        /\ kwargs' = NoKwargs
        /\ result' = out
        /\ calls' = <<>>
        /\ warnings' = <<>>

\* a call or | on the stage object heap[self]; r is what the method did
CallStep(name, self, a, kw, r) ==
    /\ heap[self].cls # "Pipeline"
    /\ op' = name
    /\ recv' = self
    /\ given' = NoGiven
    /\ args' = a
    /\ kwargs' = kw
    /\ result' = r.out
    /\ calls' = r.calls
    /\ warnings' = r.warnings
    /\ UNCHANGED <<heap, built>>

\* ---------------------------------------------------- building (Spec)
\* any object created so far is extended, so prefixes are shared
Then ==
    \E self \in 1..Len(heap), g \in UserFns, u \in UnpackValues :
        ThenStep("then", self, g, u, MaxStages)

\* self >> g : return self.then(g)
Rshift ==
    \E self \in 1..Len(heap), g \in UserFns :
        ThenStep("rshift", self, g, "None", MaxStages)

Next == Then \/ Rshift

Spec == Init /\ [][Next]_vars

\* ------------------------------------------- a linear chain (SpecRun)
\* Pipeline().then(f1)...then(fN), each stage called as soon as it is built
Newest == Len(heap)

ChainThen ==
    \E g \in UserFns, u \in UnpackValues :
        ThenStep("then", Newest, g, u, MaxDepth + 1)

ChainRshift ==
    \E g \in UserFns :
        ThenStep("rshift", Newest, g, "None", MaxDepth + 1)

Call ==
    \E i \in CallInputs :
        CallStep("call", Newest, i.args, i.kwargs, call(heap[Newest], i.args, i.kwargs))

Or ==
    \E x \in ArgValues :
        CallStep("or", Newest, <<x>>, NoKwargs, __or__(heap[Newest], x))

NextRun == ChainThen \/ ChainRshift \/ Call \/ Or

SpecRun == Init /\ [][NextRun]_vars
\* ---------------------------------------------- reference semantics
\* the callables of a chain and the flags they were appended with
Names(ch) == [k \in 1..Len(ch) |-> ch[k].g]
AllPlain(ch) == \A k \in 1..Len(ch) : ch[k].unpack = "None"

\* fN(...f2(f1(*args, **kwargs))...): each later callable gets the previous
\* result as its sole argument; an exception ends the evaluation
RECURSIVE PlainFrom(_, _, _)
PlainFrom(ch, k, o) ==
    IF k > Len(ch) \/ Raised(o) THEN o
    ELSE PlainFrom(ch, k + 1, ApplyUser(ch[k].g, <<o.val>>, NoKwargs))
PlainFold(ch, a, kw) == PlainFrom(ch, 2, ApplyUser(ch[1].g, a, kw))

\* the N callables run left to right, the joint after a tuple-flagged stage
\* spreading its tuple; yields the outcome and the callables entered
RECURSIVE RefFrom(_, _, _)
RefFrom(ch, k, r) ==
    IF k > Len(ch) \/ Raised(r.out) THEN r
    ELSE IF ch[k - 1].unpack = "tuple" /\ ~IsTuple(r.out.val)
         THEN [out |-> Raise("TypeError", <<"argument after * must be an iterable">>),
               calls |-> r.calls]
    ELSE RefFrom(ch, k + 1,
                 [out |-> ApplyUser(ch[k].g,
                                    IF ch[k - 1].unpack = "tuple" THEN r.out.val.v
                                    ELSE <<r.out.val>>,
                                    NoKwargs),
                  calls |-> Append(r.calls, ch[k].g)])
RefRun(ch, a, kw) ==
    RefFrom(ch, 2, [out |-> ApplyUser(ch[1].g, a, kw), calls |-> <<ch[1].g>>])

IsPrefix(s, t) == Len(s) <= Len(t) /\ \A k \in 1..Len(s) : s[k] = t[k]

\* ------------------------------------------------------------ claims
\* C1: a chain appended with .then(f) and no unpack flag, called with
\* (*args, **kwargs), returns fN(...f2(f1(*args, **kwargs))...); for N = 1
\* that is f1(*args, **kwargs).
C1_PlainChain ==
    (op = "call" /\ AllPlain(built[recv]))
        => result = PlainFold(built[recv], args, kwargs)

\* three plain stages called with a keyword argument, returning a value
C1_Witness ==
    /\ op = "call" /\ AllPlain(built[recv]) /\ Len(built[recv]) = 3
    /\ kwargs # NoKwargs /\ ~Raised(result)

\* C2: when the stage before the last was appended with the tuple flag and
\* returns a tuple (a, b, ...), the call returns g(a, b, ...) for the last
\* callable g: the elements are spread over g's positional parameters.
C2_TupleSpread ==
    (op = "call" /\ Len(built[recv]) >= 2
       /\ built[recv][Len(built[recv]) - 1].unpack = "tuple")
        => LET prev == call(heap[recv - 1], args, kwargs).out
               g == built[recv][Len(built[recv])].g
           IN  (~Raised(prev) /\ IsTuple(prev.val))
                   => result = ApplyUser(g, prev.val.v, NoKwargs)

\* two consecutive tuple-flagged stages and a third callable, all returning
C2_Witness ==
    /\ op = "call" /\ Len(built[recv]) = 3
    /\ built[recv][1].unpack = "tuple" /\ built[recv][2].unpack = "tuple"
    /\ built[recv][3].unpack = "None" /\ ~Raised(result)

\* C3: a stage appended with unpack="tuple" returns from .call what the
\* stage appended to the same prefix with no flag returns.
C3_TrailingInert ==
    (op = "call" /\ built[recv][Len(built[recv])].unpack = "tuple")
        => LET g == built[recv][Len(built[recv])].g
               plain == _then(heap[recv - 1], UserFn(g), "None").val
           IN  /\ plain.cls = "_PipeStd"
               /\ heap[recv].cls = "_PipeTUn"
               /\ result = call(plain, args, kwargs).out

\* a tuple-flagged last stage after a tuple-flagged prefix returns its tuple
C3_Witness ==
    /\ op = "call" /\ Len(built[recv]) = 2
    /\ built[recv][1].unpack = "tuple" /\ built[recv][2].unpack = "tuple"
    /\ ~Raised(result) /\ IsTuple(result.val)
Contains(m, x) == \E k \in 1..Len(m) : m[k] = x

\* C4: .then(f, unpack=X) with X neither None nor "tuple" raises an error
\* whose message contains X and creates no stage, whatever the receiver.
C4_BadUnpackFails ==
    [][(op' = "then" /\ given'.unpack \notin {"None", "tuple"})
         => /\ Raised(result')
            /\ Contains(result'.msg, given'.unpack)
            /\ heap' = heap]_vars

\* then(f, unpack="dict") on a tuple-unpack stage has raised
C4_Witness ==
    /\ op = "then" /\ given.unpack = "dict" /\ heap[recv].cls = "_PipeTUn"
    /\ Raised(result) /\ result.type = "ValueError"

\* C5: when running the callables of the chain left to right raises E with
\* message M at some callable, under either join, .call raises that E and M.
C5_ErrorPropagates ==
    op = "call"
        => LET ref == RefRun(built[recv], args, kwargs).out
           IN  Raised(ref)
                   => /\ Raised(result)
                      /\ result.type = ref.type
                      /\ result.msg = ref.msg

\* the last of three callables raised CustomError after a tuple-spread joint
C5_Witness ==
    /\ op = "call" /\ Len(built[recv]) = 3 /\ Len(calls) = 3
    /\ built[recv][2].unpack = "tuple"
    /\ result = Raise("CustomError", <<"oops">>)

C8_TransitionRule ==
    (op \in {"then", "rshift"} /\ ~Raised(result))
        => LET new == heap[Len(heap)]
               self == heap[recv]
               g == UserFn(given.g)
           IN  /\ result.val = new
               /\ new.cls = (IF given.unpack = "tuple" THEN "_PipeTUn" ELSE "_PipeStd")
               /\ op = "rshift" => new.cls = "_PipeStd"
               /\ self.cls = "Pipeline" => new.f = g
               /\ self.cls = "_PipeStd"
                      => new.f = [kind |-> "no_ret_unpack", f |-> self.f, g |-> g]
               /\ self.cls = "_PipeTUn"
                      => new.f = [kind |-> "ret_tuple_unpack", f |-> self.f, g |-> g]

\* then(g, unpack="tuple") on a regular stage: single-value join, tuple tag
C8_Witness ==
    /\ op = "then" /\ ~Raised(result) /\ given.unpack = "tuple"
    /\ heap[recv].cls = "_PipeStd"
    /\ heap[Len(heap)].f.kind = "no_ret_unpack"

\* the errors _compose_self_with raises on an inconsistent stage
InternalError(o) ==
    /\ Raised(o)
    /\ o.msg[1] \in {"Wrong compose type ", "Unsupported compose type: "}

\* C9: the Pipeline object has mode no_compose and no callable, every other
\* object has mode regular or tuple_unpack and holds a callable, and no
\* operation raises the internal-consistency error.
C9_StagesConsistent ==
    /\ \A i \in 1..Len(heap) :
          IF heap[i].cls = "Pipeline"
          THEN _compose_type(heap[i]) = "no_compose" /\ heap[i].f = NoneF
          ELSE /\ _compose_type(heap[i]) \in {"regular", "tuple_unpack"}
               /\ heap[i].f # NoneF
    /\ heap[1].cls = "Pipeline"
    /\ \A i \in 2..Len(heap) : heap[i].cls \in {"_PipeStd", "_PipeTUn"}
    /\ ~InternalError(result)

\* a stage built on a tuple-unpack stage, whose compose type needs self.f
C9_Witness ==
    /\ op = "then" /\ ~Raised(result) /\ heap[recv].cls = "_PipeTUn"
    /\ Len(heap) = 3

\* C10: then and >> enter no user callable; one call enters the callables
\* of the chain at most once each, in append order, up to and including the
\* first that raises and none after it.
C10_CallOrder ==
    /\ op \in {"then", "rshift", "init"} => calls = <<>>
    /\ op \in {"call", "or"}
          => LET ref == RefRun(built[recv], args, kwargs)
             IN  /\ IsPrefix(calls, Names(built[recv]))
                 /\ calls = ref.calls
                 /\ ~Raised(result) => calls = Names(built[recv])

\* the second of three callables raised and the third was not entered
C10_Witness ==
    /\ op = "call" /\ Len(built[recv]) = 3 /\ Len(calls) = 2
    /\ Raised(result) /\ result.type = "ZeroDivisionError"
====
